---- MODULE Spec2Model ----
(***************************************************************************)
(* Model of the semantic-search Lambda (backend/lambda/semantic_search.py) *)
(* and of the collaborators it talks to: the Redis cache store, the OpenAI *)
(* embeddings API, the Pinecone vector index and the Aurora incidents      *)
(* table.  One invocation runs in one Lambda instance; its position in     *)
(* lambda_handler is pc[r].  Scores and thresholds are in tenths (0.7 is   *)
(* 7), times are in seconds.                                               *)
(***************************************************************************)
EXTENDS Integers, Sequences, FiniteSets, TLC

\* ------------------------------------------------------------------ bounds
NumInstances == 2
MaxInvocations == 2
MaxTicks == 2
TickStep == 43200

\* --------------------------------------------------------- program constants
DefaultMatchThreshold == 7
DefaultMatchCount == 10
EmbeddingTTL == 86400
ResultTTL == 600

Reqs == 1..NumInstances

\* ------------------------------------------------------------- JSON values
\* A decoded JSON value: a string, a number or null.
JStr(s) == [t |-> "str", s |-> s, n |-> 0]
JNum(n) == [t |-> "num", s |-> "", n |-> n]
JNull == [t |-> "null", s |-> "", n |-> 0]

\* The strings float()/int() accept, with the number they denote.
NumericStrings == {"1"}
StrToNum(s) == 1

\* json.dumps / json.loads: a document is the encoded text of a value; any
\* other text does not decode.
json_dumps(x) == [json |-> TRUE, doc |-> x]
NotJson == [json |-> FALSE, doc |-> <<>>]
json_loads_ok(s) == s.json
json_loads(s) == s.doc

\* dict.get(key, default)
DictGet(d, k, default) == IF k \in DOMAIN d THEN d[k] ELSE default
DictGetOrNone(d, k) == DictGet(d, k, JNull)

\* Python truthiness of a decoded value (the test `not query`).
Truthy(x) ==
    CASE x.t = "str" -> x.s /= ""
      [] x.t = "num" -> x.n /= 0
      [] OTHER -> FALSE

\* float(x) and int(x): succeed on numbers and numeric strings, raise
\* ValueError on other strings and TypeError on None.
ConvRaises(x) ==
    CASE x.t = "num" -> "none"
      [] x.t = "str" -> IF x.s \in NumericStrings THEN "none" ELSE "ValueError"
      [] OTHER -> "TypeError"
ConvValue(x) == IF x.t = "num" THEN x.n ELSE StrToNum(x.s)

\* ------------------------------------------------------------ input domain
QueryTexts == {"a", "b"}
QueryValues == {JStr("")} \cup {JStr(q) : q \in QueryTexts}
ThresholdValues == {JNum(5), JStr("abc")}
CountValues == {JStr("1"), JStr("abc")}

\* A request body once decoded: a map with any subset of the three fields.
OptField(k, vals) == {<<>>} \cup {(k :> v) : v \in vals}
Bodies ==
    {q @@ th @@ c : q \in OptField("query", QueryValues),
                    th \in OptField("matchThreshold", ThresholdValues),
                    c \in OptField("matchCount", CountValues)}

\* event['body']: absent, text that is not JSON, the JSON text of a map, or
\* (direct invocation) an already decoded map carrying only the query.
Events ==
    {[kind |-> "none", map |-> <<>>], [kind |-> "badjson", map |-> <<>>]}
    \cup {[kind |-> "json", map |-> b] : b \in Bodies}
    \cup {[kind |-> "map", map |-> b] : b \in OptField("query", QueryValues)}

\* The incident ids the vector index knows.
Ids == {1, 2}
Scores == {5, 7}
\* ---------------------------------------------------------- collaborators
\* openai.Embedding.create(input=text): the vector the model gives the text.
EmbeddingOf(text) == <<"vec", text>>
NoEmbedding == <<>>

\* A key that forgets the query text.
embedding_key_shared(q) == <<"embedding", "">>
\* Redis keys built by the handler.
embedding_key(q) == <<"embedding", q>>
result_key(q, th, c) == <<"search", q, th, c>>

\* A text is a sequence of words; a NULL column is None.
None == <<"None">>
\* One row of the incidents table per id.
RowOf(i) ==
    IF i = 1
    THEN [id |-> i, title |-> <<"Malware">>,
          description |-> <<"lateral movement", "exfiltration">>]
    ELSE [id |-> i, title |-> <<"server", "10.0.0.1">>, description |-> None]

\* An answer of pinecone_index.query(top_k = k): at most k matches, each an
\* id with its score, no id twice.
Match(i, sc) == [id |-> i, score |-> sc]
AnswersOfLen(n) ==
    {m \in [1..n -> {Match(i, sc) : i \in Ids, sc \in Scores}] :
        \A x, y \in 1..n : x /= y => m[x].id /= m[y].id}
PineconeAnswers(k) ==
    UNION {AnswersOfLen(n) : n \in {j \in 0..Cardinality(Ids) : j <= k}}

\* ---------------------------------------------------------------- results
NoResult == [kind |-> "none", statusCode |-> 0, body |-> NotJson, exc |-> ""]
Return(code, doc) ==
    [kind |-> "return", statusCode |-> code, body |-> json_dumps(doc), exc |-> ""]
Raise(e) == [kind |-> "raise", statusCode |-> 0, body |-> NotJson, exc |-> e]
ErrorDoc(parts) == [error |-> parts]

\* What redis_client.get hands back: the stored text, or None.
Absent == [present |-> FALSE, val |-> NotJson]
Stored(v) == [present |-> TRUE, val |-> v]

\* One upstream call as seen from the handler: the service, the operation,
\* its argument (key, text, vector or id list), its number (time to live or
\* top_k), whether it returned, and what a cache read returned.
Call(svc, op, arg, n, ok) ==
    [svc |-> svc, op |-> op, arg |-> arg, n |-> n, ok |-> ok, ret |-> Absent]
GetCall(k, ok, ret) ==
    [svc |-> "redis", op |-> "get", arg |-> k, n |-> 0, ok |-> ok, ret |-> ret]

VARIABLES
    pc,               \* position of each instance in lambda_handler
    event,            \* the event of the running invocation
    query, match_threshold, match_count,
    embedding, pinecone_results, ids, incidents,
    result,           \* what the invocation returned or raised
    calls,            \* upstream calls of the running invocation, in order
    redis,            \* the cache store: key -> [val, exp]
    now,              \* wall clock, seconds
    invocations, ticks

\* The scorer run on one row on its own (lines 200-223).
VARIABLES
    sc_pc,            \* "off", "row" (a row is at hand) or "scored"
    sc_row,           \* the row: id, title, description
    sc_analysis,      \* what detect_threat_patterns returned
    sc_recommendations,
    sc_incident       \* the entry appended to incidents

searchVars == <<pc, event, query, match_threshold, match_count, embedding,
                pinecone_results, ids, incidents, result, calls, redis, now,
                invocations, ticks>>
scorerVars == <<sc_pc, sc_row, sc_analysis, sc_recommendations, sc_incident>>

\* health_check.py, check_detailed_health.
VARIABLES
    h_pc,             \* position in check_detailed_health
    h_env,            \* which credentials the environment holds
    h_services,       \* what the three internal checks returned so far
    health_results,
    h_cloudwatch,     \* the metric data CloudWatch accepted
    h_response
healthVars == <<h_pc, h_env, h_services, health_results, h_cloudwatch, h_response>>

\* teams_alert_handler.py, lambda_handler.
VARIABLES
    t_pc,             \* position in lambda_handler
    t_env,            \* TEAMS_WEBHOOK_URL, or "" when unset
    t_event,          \* the alarm event
    t_message,        \* the card built for the alarm
    t_posts,          \* the requests.post calls made
    t_response
teamsVars == <<t_pc, t_env, t_event, t_message, t_posts, t_response>>

outside == <<scorerVars, healthVars, teamsVars>>
vars == <<searchVars, scorerVars, healthVars, teamsVars>>

NoEvent == [kind |-> "none", map |-> <<>>]

SearchInit ==
    /\ pc = [r \in Reqs |-> "idle"]
    /\ event = [r \in Reqs |-> NoEvent]
    /\ query = [r \in Reqs |-> JNull]
    /\ match_threshold = [r \in Reqs |-> 0]
    /\ match_count = [r \in Reqs |-> 0]
    /\ embedding = [r \in Reqs |-> NoEmbedding]
    /\ pinecone_results = [r \in Reqs |-> <<>>]
    /\ ids = [r \in Reqs |-> <<>>]
    /\ incidents = [r \in Reqs |-> <<>>]
    /\ result = [r \in Reqs |-> NoResult]
    /\ calls = [r \in Reqs |-> <<>>]
    /\ redis = <<>>
    /\ now = 0
    /\ invocations = 0
    /\ ticks = 0

NoRow == [id |-> 0, title |-> <<>>, description |-> <<>>]
NoAnalysis ==
    [threat_level |-> "", confidence_score |-> 0, indicators |-> <<>>,
     risk_factors |-> <<>>]
NoIncident ==
    [id |-> 0, title |-> <<>>, description |-> <<>>,
     threat_analysis |-> NoAnalysis @@ [recommendations |-> <<>>]]
ScorerOff ==
    /\ sc_pc = "off"
    /\ sc_row = NoRow
    /\ sc_analysis = NoAnalysis
    /\ sc_recommendations = <<>>
    /\ sc_incident = NoIncident

NoResponse == [statusCode |-> 0, body |-> NotJson]
HealthOff ==
    /\ h_pc = "off"
    /\ h_env = [supabase |-> FALSE, openai |-> FALSE]
    /\ h_services = <<>>
    /\ health_results = <<>>
    /\ h_cloudwatch = <<>>
    /\ h_response = NoResponse

TeamsOff ==
    /\ t_pc = "off"
    /\ t_env = ""
    /\ t_event = <<>>
    /\ t_message = <<>>
    /\ t_posts = <<>>
    /\ t_response = NoResponse

Init == SearchInit /\ ScorerOff /\ HealthOff /\ TeamsOff

\* ----------------------------------------------------------------- the store
\* redis GET: the value under key k, or absent when unset or expired.
Live(k) == k \in DOMAIN redis /\ now < redis[k].exp
\* redis SETEX k ttl v
Setex(k, ttl, v) ==
    [x \in DOMAIN redis \cup {k} |->
        IF x = k THEN [val |-> v, exp |-> now + ttl] ELSE redis[x]]

\* ------------------------------------------------------------------ actions
\* Invocations arrive one after the other; the platform hands them to the
\* instances in turn.
Invoke(r) ==
    /\ UNCHANGED outside
    /\ pc[r] = "idle"
    /\ \A o \in Reqs : pc[o] = "idle"
    /\ r = (invocations % NumInstances) + 1
    /\ invocations < MaxInvocations
    /\ \E ev \in Events : event' = [event EXCEPT ![r] = ev]
    /\ pc' = [pc EXCEPT ![r] = "parse"]
    /\ invocations' = invocations + 1
    /\ UNCHANGED <<query, match_threshold, match_count, embedding,
                   pinecone_results, ids, incidents, result, calls, redis,
                   now, ticks>>

Finish(r, res) ==
    /\ result' = [result EXCEPT ![r] = res]
    /\ pc' = [pc EXCEPT ![r] = "done"]

\* lines 151-158: decode the body, read the three fields, reject an empty
\* query.
ParseOutcome(ev) ==
    IF ev.kind = "none" THEN Raise("AttributeError")
    ELSE IF ev.kind = "badjson" THEN Raise("JSONDecodeError")
    ELSE LET body == IF ev.kind = "json" THEN json_loads(json_dumps(ev.map))
                     ELSE ev.map
             q == DictGetOrNone(body, "query")
             th == DictGet(body, "matchThreshold", JNum(DefaultMatchThreshold))
             c == DictGet(body, "matchCount", JNum(DefaultMatchCount))
         IN  IF ConvRaises(th) /= "none" THEN Raise(ConvRaises(th))
             ELSE IF ConvRaises(c) /= "none" THEN Raise(ConvRaises(c))
             ELSE IF ~Truthy(q)
                  THEN Return(400, ErrorDoc(<<"Query is required">>))
             ELSE NoResult

Parse(r) ==
    /\ UNCHANGED outside
    /\ pc[r] = "parse"
    /\ LET out == ParseOutcome(event[r])
           body == event[r].map
       IN  IF out.kind /= "none"
           THEN /\ Finish(r, out)
                /\ UNCHANGED <<query, match_threshold, match_count>>
           ELSE /\ query' = [query EXCEPT ![r] = DictGetOrNone(body, "query")]
                /\ match_threshold' = [match_threshold EXCEPT ![r] =
                       ConvValue(DictGet(body, "matchThreshold",
                                         JNum(DefaultMatchThreshold)))]
                /\ match_count' = [match_count EXCEPT ![r] =
                       ConvValue(DictGet(body, "matchCount",
                                         JNum(DefaultMatchCount)))]
                /\ pc' = [pc EXCEPT ![r] = "cache_get"]
                /\ UNCHANGED result
    /\ UNCHANGED <<event, embedding, pinecone_results, ids, incidents, calls,
                   redis, now, invocations, ticks>>
Logged(r, c) == calls' = [calls EXCEPT ![r] = Append(@, c)]
Goto(r, label) == pc' = [pc EXCEPT ![r] = label] /\ UNCHANGED result

\* redis_client.get(key): the stored text, or None.
redis_get(k) == IF Live(k) THEN Stored(redis[k].val) ELSE Absent
\* A handler that asks the provider whatever the cache holds.
CacheHitNever(cached) == FALSE
\* line 163, `if embedding:`: a stored text is never empty, None is falsy.
CacheHit(cached) == cached.present

\* lines 161-165: look the embedding up in the cache.
CacheGet(r) ==
    /\ UNCHANGED outside
    /\ pc[r] = "cache_get"
    /\ LET k == embedding_key(query[r].s) IN
       \E ok \in BOOLEAN :
         /\ Logged(r, GetCall(k, ok, IF ok THEN redis_get(k) ELSE Absent))
         /\ IF ~ok
            THEN Finish(r, Raise("redis.ConnectionError")) /\ UNCHANGED embedding
            ELSE IF CacheHit(redis_get(k))
            THEN IF json_loads_ok(redis_get(k).val)
                 THEN /\ embedding' = [embedding EXCEPT ![r] =
                                          json_loads(redis_get(k).val)]
                      /\ Goto(r, "pinecone")
                 ELSE Finish(r, Raise("JSONDecodeError")) /\ UNCHANGED embedding
            ELSE Goto(r, "openai") /\ UNCHANGED embedding
    /\ UNCHANGED <<event, query, match_threshold, match_count,
                   pinecone_results, ids, incidents, redis, now, invocations,
                   ticks>>

OpenAIError(e) == Return(500, ErrorDoc(<<"OpenAI error: ", e>>))
PineconeError(e) == Return(500, ErrorDoc(<<"Pinecone error: ", e>>))
\* A handler that swallows the store's failure and answers with what it has.
AuroraErrorSwallowed(e) == Return(200, [success |-> TRUE, results |-> <<>>, error |-> <<"Aurora error: ", e>>])
AuroraError(e) == Return(500, ErrorDoc(<<"Aurora error: ", e>>))

\* lines 167-172, 175-176: ask the provider for the embedding.
Embed(r) ==
    /\ UNCHANGED outside
    /\ pc[r] = "openai"
    /\ \E ok \in BOOLEAN :
         /\ Logged(r, Call("openai", "create", <<query[r].s>>, 0, ok))
         /\ IF ok
            THEN /\ embedding' = [embedding EXCEPT ![r] = EmbeddingOf(query[r].s)]
                 /\ Goto(r, "cache_put")
            ELSE Finish(r, OpenAIError("openai.APIError")) /\ UNCHANGED embedding
    /\ UNCHANGED <<event, query, match_threshold, match_count,
                   pinecone_results, ids, incidents, redis, now, invocations,
                   ticks>>

\* lines 174-176: write the embedding through to the cache, inside the
\* provider's try block.
CachePut(r) ==
    /\ UNCHANGED outside
    /\ pc[r] = "cache_put"
    /\ LET k == embedding_key(query[r].s) IN
       \E ok \in BOOLEAN :
         /\ Logged(r, Call("redis", "setex", k, EmbeddingTTL, ok))
         /\ IF ok
            THEN /\ redis' = Setex(k, EmbeddingTTL, json_dumps(embedding[r]))
                 /\ Goto(r, "pinecone")
            ELSE Finish(r, OpenAIError("redis.ConnectionError")) /\ UNCHANGED redis
    /\ UNCHANGED <<event, query, match_threshold, match_count, embedding,
                   pinecone_results, ids, incidents, now, invocations,
                   ticks>>

\* The filter with > in place of >=.
RECURSIVE FilterIdsStrict(_, _)
FilterIdsStrict(matches, th) ==
    IF matches = <<>> THEN <<>>
    ELSE (IF Head(matches).score > th THEN <<Head(matches).id>> ELSE <<>>)
         \o FilterIdsStrict(Tail(matches), th)

\* line 186: the ids of the matches at or above the threshold, in the
\* answer's order.
RECURSIVE FilterIds(_, _)
FilterIds(matches, th) ==
    IF matches = <<>> THEN <<>>
    ELSE (IF Head(matches).score >= th THEN <<Head(matches).id>> ELSE <<>>)
         \o FilterIds(Tail(matches), th)

\* lines 179-188: query the vector index and filter by score.
Pinecone(r) ==
    /\ UNCHANGED outside
    /\ pc[r] = "pinecone"
    /\ \E ok \in BOOLEAN :
         /\ Logged(r, Call("pinecone", "query", embedding[r], match_count[r], ok))
         /\ IF ok
            THEN \E ans \in PineconeAnswers(match_count[r]) :
                   /\ pinecone_results' = [pinecone_results EXCEPT ![r] = ans]
                   /\ ids' = [ids EXCEPT ![r] = FilterIds(ans, match_threshold[r])]
                   /\ Goto(r, "metadata")
            ELSE /\ Finish(r, PineconeError("pinecone.ApiException"))
                 /\ UNCHANGED <<pinecone_results, ids>>
    /\ UNCHANGED <<event, query, match_threshold, match_count, embedding,
                   incidents, redis, now, invocations, ticks>>
\* ------------------------------------------------------------ threat scorer
\* lines 49-72: the pattern table, category by category; a keyword pattern
\* is its set of alternatives, an IOC pattern the set of words of its shape.
Patterns ==
    << {"malware", "virus", "trojan", "ransomware", "backdoor", "rootkit"},
       {"payload", "exploit", "shellcode", "injection"},
       {"keylogger", "spyware", "adware"},
       {"lateral movement", "pivot", "exfiltration"},
       {"command and control", "c2", "beacon"},
       {"data breach", "leak", "exfil"},
       {"phishing", "spear phishing", "social engineering"},
       {"privilege escalation", "escalation"},
       {"persistence", "persistent"},
       {"10.0.0.1", "192.168.1.1"},
       {"aa:bb:cc:dd:ee:ff"},
       {},
       {},
       {} >>

\* str.lower() on the words of the model.
Lower(w) ==
    CASE w = "Malware" -> "malware"
      [] w = "MALWARE" -> "malware"
      [] w = "Exfil" -> "exfil"
      [] OTHER -> w

\* `frag in s` for the fragments the scorer looks for.
Contains(s, frag) ==
    CASE frag = "malware" -> s = "malware"
      [] frag = "lateral" -> s = "lateral movement"
      [] frag = "exfil" -> s \in {"exfil", "exfiltration"}
      [] OTHER -> s = frag

\* re.findall(pattern, word): the case-insensitive keyword patterns find a
\* word that is one of their alternatives, and "exfil" inside
\* "exfiltration"; the IOC patterns are case-sensitive.
FindInWord(p, w) ==
    IF p <= 9
    THEN IF Lower(w) \in Patterns[p] THEN <<w>>
         ELSE IF p = 6 /\ Lower(w) = "exfiltration" THEN <<"exfil">>
         ELSE <<>>
    ELSE IF w \in Patterns[p] THEN <<w>> ELSE <<>>

\* re.findall(pattern, text): the matches in text order.
RECURSIVE FindAll(_, _)
FindAll(p, text) ==
    IF text = <<>> THEN <<>>
    ELSE FindInWord(p, Head(text)) \o FindAll(p, Tail(text))

\* lines 81-87: the matches of every pattern, in table order.
RECURSIVE CollectIndicators(_, _)
CollectIndicators(p, text) ==
    IF p > Len(Patterns) THEN <<>>
    ELSE FindAll(p, text) \o CollectIndicators(p + 1, text)

\* lines 81-87: threat_count, summed pattern by pattern.
RECURSIVE ThreatCount(_, _)
ThreatCount(p, text) ==
    IF p > Len(Patterns) THEN 0
    ELSE Len(FindAll(p, text)) + ThreatCount(p + 1, text)

AnyContains(seq, frag) == \E i \in 1..Len(seq) : Contains(Lower(seq[i]), frag)

ThreatLevelEarly(threat_count) ==
    IF threat_count >= 4 THEN "critical"
    ELSE IF threat_count >= 2 THEN "high"
    ELSE IF threat_count >= 1 THEN "medium"
    ELSE "low"
\* lines 89-98
ThreatLevel(threat_count) ==
    IF threat_count >= 5 THEN "critical"
    ELSE IF threat_count >= 3 THEN "high"
    ELSE IF threat_count >= 1 THEN "medium"
    ELSE "low"
\* in tenths
ConfidenceScore(threat_count) ==
    IF threat_count >= 5 THEN 9
    ELSE IF threat_count >= 3 THEN 7
    ELSE IF threat_count >= 1 THEN 5
    ELSE 0

\* Risk factors by the pattern that matched rather than by the fragment.
RiskFactorsByPattern(indicators) ==
    (IF \E i \in 1..Len(indicators) : Lower(indicators[i]) \in Patterns[1]
     THEN <<"Malware detected">> ELSE <<>>)
    \o (IF \E i \in 1..Len(indicators) : Lower(indicators[i]) \in Patterns[4]
        THEN <<"Lateral movement detected">> ELSE <<>>)
    \o (IF \E i \in 1..Len(indicators) : Lower(indicators[i]) \in Patterns[6]
        THEN <<"Data exfiltration risk">> ELSE <<>>)
\* lines 100-106
RiskFactors(indicators) ==
    (IF AnyContains(indicators, "malware") THEN <<"Malware detected">> ELSE <<>>)
    \o (IF AnyContains(indicators, "lateral") THEN <<"Lateral movement detected">> ELSE <<>>)
    \o (IF AnyContains(indicators, "exfil") THEN <<"Data exfiltration risk">> ELSE <<>>)

\* lines 47-108
detect_threat_patterns(text) ==
    LET indicators == CollectIndicators(1, text)
        threat_count == ThreatCount(1, text)
    IN  [threat_level |-> ThreatLevel(threat_count),
         confidence_score |-> ConfidenceScore(threat_count),
         indicators |-> indicators,
         risk_factors |-> RiskFactors(indicators)]

Member(seq, x) == \E i \in 1..Len(seq) : seq[i] = x
\* seq[:n]
Prefix(seq, n) == SubSeq(seq, 1, IF Len(seq) < n THEN Len(seq) ELSE n)

\* A generator that puts the factor-specific strings before the general ones.
recommendations_factors_first(threat_analysis) ==
    LET recommendations ==
          (IF Member(threat_analysis.risk_factors, "Malware detected")
           THEN <<"Run full antivirus scan on all systems",
                  "Check for persistence mechanisms",
                  "Review system logs for additional indicators">>
           ELSE <<>>)
          \o (IF threat_analysis.threat_level \in {"high", "critical"}
              THEN <<"Immediate incident response required",
                     "Isolate affected systems",
                     "Notify security team and management",
                     "Preserve evidence for forensic analysis">>
              ELSE <<>>)
    IN  Prefix(recommendations, 5)
\* lines 110-143
generate_security_recommendations(threat_analysis) ==
    LET recommendations ==
          (IF threat_analysis.threat_level \in {"high", "critical"}
           THEN <<"Immediate incident response required",
                  "Isolate affected systems",
                  "Notify security team and management",
                  "Preserve evidence for forensic analysis">>
           ELSE <<>>)
          \o (IF Member(threat_analysis.risk_factors, "Malware detected")
              THEN <<"Run full antivirus scan on all systems",
                     "Check for persistence mechanisms",
                     "Review system logs for additional indicators">>
              ELSE <<>>)
          \o (IF Member(threat_analysis.risk_factors, "Lateral movement detected")
              THEN <<"Review network segmentation",
                     "Check for unauthorized access attempts",
                     "Monitor for additional lateral movement">>
              ELSE <<>>)
          \o (IF Member(threat_analysis.risk_factors, "Data exfiltration risk")
              THEN <<"Review data access logs",
                     "Check for unusual data transfers",
                     "Implement data loss prevention measures">>
              ELSE <<>>)
    IN  Prefix(recommendations, 5)

\* line 202: f"{row[1]} {row[2] or ''}"
RowText(row) ==
    row.title \o (IF row.description = None THEN <<>> ELSE row.description)

IncidentUntruncated(row) ==
    LET threat_analysis == detect_threat_patterns(RowText(row))
    IN  [id |-> row.id,
         title |-> row.title,
         description |-> row.description,
         threat_analysis |->
            threat_analysis
            @@ [recommendations |-> generate_security_recommendations(threat_analysis)]]
\* lines 200-223: one entry of the response for one row.
Incident(row) ==
    LET text == RowText(row)
        threat_analysis == detect_threat_patterns(text)
        security_recommendations == generate_security_recommendations(threat_analysis)
    IN  [id |-> row.id,
         title |-> row.title,
         description |-> row.description,
         threat_analysis |->
            [threat_level |-> threat_analysis.threat_level,
             confidence_score |-> threat_analysis.confidence_score,
             indicators |-> Prefix(threat_analysis.indicators, 10),
             risk_factors |-> threat_analysis.risk_factors,
             recommendations |-> security_recommendations]]
\* The orders in which a SELECT without ORDER BY may return the rows.
RowSeqs(S) ==
    {f \in [1..Cardinality(S) -> S] :
        \A x, y \in 1..Cardinality(S) : x /= y => f[x] /= f[y]}
SeqToSet(seq) == {seq[i] : i \in 1..Len(seq)}

\* lines 190-227: fetch the rows of the matched ids and annotate them; the
\* store is not touched when no id passed the filter.
Metadata(r) ==
    /\ UNCHANGED outside
    /\ pc[r] = "metadata"
    /\ IF ids[r] = <<>>
       THEN /\ incidents' = [incidents EXCEPT ![r] = <<>>]
            /\ Goto(r, "result_cache")
            /\ UNCHANGED calls
       ELSE \E step \in {"connect", "execute", "rows"} :
              CASE step = "connect" ->
                     /\ Logged(r, Call("aurora", "connect", <<>>, 0, FALSE))
                     /\ Finish(r, AuroraError("psycopg2.OperationalError"))
                     /\ UNCHANGED incidents
                [] step = "execute" ->
                     /\ calls' = [calls EXCEPT ![r] =
                           @ \o <<Call("aurora", "connect", <<>>, 0, TRUE),
                                  Call("aurora", "execute", ids[r], 0, FALSE)>>]
                     /\ Finish(r, AuroraError("psycopg2.DatabaseError"))
                     /\ UNCHANGED incidents
                [] OTHER ->
                     /\ calls' = [calls EXCEPT ![r] =
                           @ \o <<Call("aurora", "connect", <<>>, 0, TRUE),
                                  Call("aurora", "execute", ids[r], 0, TRUE)>>]
                     /\ \E present \in SUBSET SeqToSet(ids[r]) :
                        \E rows \in RowSeqs(present) :
                          incidents' = [incidents EXCEPT ![r] =
                              [i \in 1..Len(rows) |-> Incident(RowOf(rows[i]))]]
                     /\ Goto(r, "result_cache")
    /\ UNCHANGED <<event, query, match_threshold, match_count, embedding,
                   pinecone_results, ids, redis, now, invocations, ticks>>

SuccessDocRequested(r) ==
    [success |-> TRUE,
     results |-> incidents[r],
     query |-> query[r],
     matchThreshold |-> match_threshold[r],
     matchCount |-> match_count[r]]
\* lines 234-243
SuccessDoc(r) ==
    [success |-> TRUE,
     results |-> incidents[r],
     query |-> query[r],
     matchThreshold |-> match_threshold[r],
     matchCount |-> Len(incidents[r])]

\* lines 229-243: store the results for ten minutes, then answer.
ResultCache(r) ==
    /\ UNCHANGED outside
    /\ pc[r] = "result_cache"
    /\ LET k == result_key(query[r].s, match_threshold[r], match_count[r]) IN
       \E ok \in BOOLEAN :
         /\ Logged(r, Call("redis", "setex", k, ResultTTL, ok))
         /\ IF ok
            THEN /\ redis' = Setex(k, ResultTTL, json_dumps(incidents[r]))
                 /\ Finish(r, Return(200, SuccessDoc(r)))
            ELSE /\ Finish(r, Raise("redis.ConnectionError"))
                 /\ UNCHANGED redis
    /\ UNCHANGED <<event, query, match_threshold, match_count, embedding,
                   pinecone_results, ids, incidents, now, invocations,
                   ticks>>

\* The invocation is over; the instance waits for the next event.
Recycle(r) ==
    /\ UNCHANGED outside
    /\ pc[r] = "done"
    /\ pc' = [pc EXCEPT ![r] = "idle"]
    /\ event' = [event EXCEPT ![r] = NoEvent]
    /\ query' = [query EXCEPT ![r] = JNull]
    /\ match_threshold' = [match_threshold EXCEPT ![r] = 0]
    /\ match_count' = [match_count EXCEPT ![r] = 0]
    /\ embedding' = [embedding EXCEPT ![r] = NoEmbedding]
    /\ pinecone_results' = [pinecone_results EXCEPT ![r] = <<>>]
    /\ ids' = [ids EXCEPT ![r] = <<>>]
    /\ incidents' = [incidents EXCEPT ![r] = <<>>]
    /\ result' = [result EXCEPT ![r] = NoResult]
    /\ calls' = [calls EXCEPT ![r] = <<>>]
    /\ UNCHANGED <<redis, now, invocations, ticks>>

\* Time passes between invocations (an invocation is far shorter than
\* TickStep); the store drops the entries whose time to live is over.
Tick ==
    /\ UNCHANGED outside
    /\ ticks < MaxTicks
    /\ \A r \in Reqs : pc[r] = "idle"
    /\ now' = now + TickStep
    /\ redis' = [k \in {x \in DOMAIN redis : now + TickStep < redis[x].exp} |-> redis[k]]
    /\ ticks' = ticks + 1
    /\ UNCHANGED <<pc, event, query, match_threshold, match_count, embedding,
                   pinecone_results, ids, incidents, result, calls, invocations>>

Next ==
    \/ \E r \in Reqs : Invoke(r)
    \/ \E r \in Reqs : Parse(r)
    \/ \E r \in Reqs : CacheGet(r)
    \/ \E r \in Reqs : Embed(r)
    \/ \E r \in Reqs : CachePut(r)
    \/ \E r \in Reqs : Pinecone(r)
    \/ \E r \in Reqs : Metadata(r)
    \/ \E r \in Reqs : ResultCache(r)
    \/ \E r \in Reqs : Recycle(r)
    \/ Tick

Spec == Init /\ [][Next]_vars

TypeOK ==
    /\ pc \in [Reqs -> {"idle", "parse", "cache_get", "openai", "cache_put",
                        "pinecone", "metadata", "result_cache", "done"}]
    /\ \A r \in Reqs : result[r].kind \in {"none", "return", "raise"}
    /\ \A r \in Reqs : (pc[r] = "done") <=> (result[r].kind /= "none")
\* ------------------------------------------------------- reading a request
\* What the request asks for, read off the event itself.
HasPayload(ev) == ev.kind \in {"json", "map"}
QueryAbsentOrEmpty(ev) ==
    "query" \notin DOMAIN ev.map \/ ev.map["query"] \in {JNull, JStr("")}
Numeric(v) == v.t = "num" \/ (v.t = "str" /\ v.s \in NumericStrings)
NonNumericField(ev, k) == k \in DOMAIN ev.map /\ ~Numeric(ev.map[k])

Last(seq) == seq[Len(seq)]
CallsTo(r, svc) == {i \in 1..Len(calls[r]) : calls[r][i].svc = svc}
IsResultWrite(c) == c.svc = "redis" /\ c.op = "setex" /\ c.arg[1] = "search"
IsEmbeddingWrite(c) == c.svc = "redis" /\ c.op = "setex" /\ c.arg[1] = "embedding"

\* C1: a request whose query field is missing or empty, whatever its other
\* fields, is answered 400 {error: "Query is required"} and no upstream
\* (cache, provider, vector index, relational store) is called.
C1_EmptyQueryRejected ==
    \A r \in Reqs :
        (pc[r] = "done" /\ HasPayload(event[r]) /\ QueryAbsentOrEmpty(event[r]))
        => /\ result[r] = Return(400, ErrorDoc(<<"Query is required">>))
           /\ calls[r] = <<>>

\* C2: a request whose matchThreshold or matchCount is present and not
\* numeric is answered with a 400 error response and no upstream is called.
C2_NonNumericRejected ==
    \A r \in Reqs :
        (/\ pc[r] = "done"
         /\ HasPayload(event[r])
         /\ \/ NonNumericField(event[r], "matchThreshold")
            \/ NonNumericField(event[r], "matchCount"))
        => /\ result[r].kind = "return"
           /\ result[r].statusCode = 400
           /\ calls[r] = <<>>

\* C3: when every step before it succeeded and the result-cache write
\* fails, the invocation still returns the 200 response with the assembled
\* results.
C3_ResultCacheFailureIgnored ==
    \A r \in Reqs :
        (/\ pc[r] = "done"
         /\ calls[r] /= <<>>
         /\ IsResultWrite(Last(calls[r]))
         /\ ~Last(calls[r]).ok)
        => result[r] = Return(200, SuccessDoc(r))

\* C4: whatever step fails, the invocation ends in a returned response; an
\* error response has status 400 or 500 and a JSON body with an error
\* field, and no exception leaves lambda_handler.
C4_NoExceptionEscapes ==
    \A r \in Reqs :
        pc[r] = "done"
        => /\ result[r].kind = "return"
           /\ result[r].statusCode \in {200, 400, 500}
           /\ result[r].statusCode /= 200
                => /\ json_loads_ok(result[r].body)
                   /\ "error" \in DOMAIN json_loads(result[r].body)
\* C5: a failed call to the embedding provider, the vector index or the
\* relational store is the last upstream call of its invocation (no retry
\* of it, no later step, no result-cache write), and the invocation has
\* ended with a 500 response whose body carries an error and no result list.
Upstreams == {"openai", "pinecone", "aurora"}
C5_FailureShortCircuits ==
    \A r \in Reqs : \A i \in 1..Len(calls[r]) :
        (calls[r][i].svc \in Upstreams /\ ~calls[r][i].ok)
        => /\ i = Len(calls[r])
           /\ \A j \in 1..(i - 1) :
                ~(calls[r][j].svc = calls[r][i].svc /\ calls[r][j].op = calls[r][i].op)
           /\ pc[r] = "done"
           /\ result[r].kind = "return"
           /\ result[r].statusCode = 500
           /\ DOMAIN json_loads(result[r].body) = {"error"}

\* C5 happens: the store's query failed after the provider, the cache and
\* the vector index had answered.
C5_Witness ==
    \E r \in Reqs :
        /\ pc[r] = "done"
        /\ Len(calls[r]) = 6
        /\ Last(calls[r]).svc = "aurora"
        /\ Last(calls[r]).op = "execute"
        /\ ~Last(calls[r]).ok
        /\ result[r].statusCode = 500
\* The key and the vector a request for text q is owed, stated without the
\* handler's helpers.
KeyOfText(q) == <<"embedding", q>>
VectorOfText(q) == <<"vec", q>>
ProviderCalls(log) == Cardinality({i \in 1..Len(log) : log[i].svc = "openai"})

\* C6: once the embedding of text q is in the cache (written by a request
\* for q), it stays there until its 24 h are over, and a request for q that
\* reads the cache during that time is a hit: its step from the cache read
\* leads to the vector-index query with the cached embedding, and the
\* provider is only ever called by a request whose read found no entry.
C6_Step(r) ==
    LET q == query[r].s
        k == KeyOfText(q)
    IN  /\ (pc[r] = "cache_put" /\ pc'[r] = "pinecone")
           => /\ Live(k)'
              /\ redis'[k] = [val |-> json_dumps(VectorOfText(q)),
                              exp |-> now + 86400]
        /\ (pc[r] = "cache_get" /\ pc'[r] /= "cache_get" /\ Live(k)
              /\ Last(calls'[r]).ok)
           => /\ pc'[r] = "pinecone"
              /\ embedding'[r] = json_loads(redis[k].val)
              /\ embedding'[r] = VectorOfText(q)
              /\ ProviderCalls(calls'[r]) = 0
        /\ (pc'[r] = "openai" /\ pc[r] /= "openai")
           => (pc[r] = "cache_get" /\ ~Live(k))
        /\ ProviderCalls(calls'[r]) > ProviderCalls(calls[r])
           => pc[r] = "openai"
C6_CacheHit ==
    [][/\ \A r \in Reqs : C6_Step(r)
       /\ \A q \in QueryTexts :
            (Live(KeyOfText(q)) /\ now' < redis[KeyOfText(q)].exp)
            => /\ Live(KeyOfText(q))'
               /\ redis'[KeyOfText(q)].val = redis[KeyOfText(q)].val]_vars

\* C6 happens: half a day after an earlier request cached the embedding of
\* its text, a request for the same text has read the cache and stands at
\* the vector-index query without having called the provider.
C6_Witness ==
    \E r \in Reqs :
        /\ pc[r] = "pinecone"
        /\ now = TickStep
        /\ redis[KeyOfText(query[r].s)].exp = 86400
        /\ Len(calls[r]) = 1
        /\ calls[r][1].ret.present
        /\ embedding[r] = VectorOfText(query[r].s)

\* C7: an invocation whose cache read found nothing calls the provider
\* exactly once, and when the provider answered, the embedding is written
\* under the key of the exact query text with a 24 h time to live before
\* the vector index is queried; an invocation whose read found the entry
\* never calls the provider and never writes the embedding cache.
C7_ProviderOncePerMiss ==
    \A r \in Reqs :
        LET log == calls[r]
            q == query[r].s
            read == log[1]
            embWrites == {i \in 1..Len(log) : IsEmbeddingWrite(log[i])}
        IN  (log /= <<>> /\ read.op = "get" /\ read.ok)
            => IF read.ret.present
               THEN /\ ProviderCalls(log) = 0
                    /\ embWrites = {}
                    /\ pc[r] \notin {"openai", "cache_put"}
               ELSE /\ ProviderCalls(log) = (IF pc[r] = "openai" THEN 0 ELSE 1)
                    /\ pc[r] /= "openai" => (log[2].svc = "openai" /\ log[2].arg = <<q>>)
                    /\ embWrites \subseteq {3}
                    /\ \A i \in 1..Len(log) :
                         log[i].svc = "pinecone"
                         => /\ i = 4
                            /\ log[2].ok
                            /\ log[3] = Call("redis", "setex", KeyOfText(q), 86400, TRUE)
                            /\ log[i].arg = VectorOfText(q)
                    /\ pc[r] = "pinecone"
                         => /\ log[3] = Call("redis", "setex", KeyOfText(q), 86400, TRUE)
                            /\ KeyOfText(q) \in DOMAIN redis
                            /\ redis[KeyOfText(q)] =
                                 [val |-> json_dumps(VectorOfText(q)),
                                  exp |-> now + 86400]

\* C7 happens: a miss whose provider call and cache write succeeded has
\* reached the vector index.
C7_Witness ==
    \E r \in Reqs :
        /\ Len(calls[r]) >= 4
        /\ ~calls[r][1].ret.present
        /\ calls[r][2].svc = "openai"
        /\ IsEmbeddingWrite(calls[r][3])
        /\ calls[r][4].svc = "pinecone"
\* The threshold a request asks for: its matchThreshold, 0.7 when absent.
RequestedThreshold(ev) ==
    IF "matchThreshold" \in DOMAIN ev.map THEN ev.map["matchThreshold"].n ELSE 7

C9_EmptyIdsSkipStore ==
    \A r \in Reqs :
        (/\ pc[r] = "done"
         /\ \E i \in CallsTo(r, "pinecone") : calls[r][i].ok
         /\ ids[r] = <<>>)
        => /\ CallsTo(r, "aurora") = {}
           /\ result[r].kind = "return"
           /\ result[r].statusCode = 200
           /\ json_loads(result[r].body).results = <<>>
           /\ json_loads(result[r].body).matchCount = 0

\* C10: a 500 response tagged OpenAI, Pinecone or Aurora ends an invocation
\* whose failed call went to that very upstream.
FailedService(r) == Last(calls[r]).svc
C10_TagNamesFailedUpstream ==
    \A r \in Reqs :
        (pc[r] = "done" /\ result[r].kind = "return" /\ result[r].statusCode = 500)
        => LET tag == json_loads(result[r].body).error[1]
           IN  /\ calls[r] /= <<>>
               /\ ~Last(calls[r]).ok
               /\ tag = "OpenAI error: " => FailedService(r) = "openai"
               /\ tag = "Pinecone error: " => FailedService(r) = "pinecone"
               /\ tag = "Aurora error: " => FailedService(r) = "aurora"

\* ------------------------------------------------- the scorer on one row
\* The loop body of lines 200-223 applied to one row, for every row whose
\* title has at most MaxWords words.
MaxWords == 4
Words == {"malware", "Malware", "lateral movement", "lateral", "exfiltration",
          "10.0.0.1", "server"}
Descriptions == {None, <<"exfiltration", "exfiltration">>, <<"Exfil", "virus">>}
Texts == UNION {[1..k -> Words] : k \in 0..MaxWords}
Rows == {[id |-> 1, title |-> t, description |-> d] :
            t \in Texts, d \in Descriptions}

ScorerInit ==
    /\ SearchInit /\ HealthOff /\ TeamsOff
    /\ sc_pc = "row"
    /\ sc_row \in Rows
    /\ sc_analysis = NoAnalysis
    /\ sc_recommendations = <<>>
    /\ sc_incident = NoIncident

\* lines 202-223
AnnotateRow ==
    /\ sc_pc = "row"
    /\ sc_pc' = "scored"
    /\ sc_analysis' = detect_threat_patterns(RowText(sc_row))
    /\ sc_recommendations' = generate_security_recommendations(sc_analysis')
    /\ sc_incident' = Incident(sc_row)
    /\ UNCHANGED <<sc_row, searchVars, healthVars, teamsVars>>

ScorerNext == AnnotateRow
SpecScorer == ScorerInit /\ [][ScorerNext]_vars

Rank(level) ==
    CASE level = "low" -> 0 [] level = "medium" -> 1
      [] level = "high" -> 2 [] level = "critical" -> 3

\* C11: with n the number of matches collected, the scorer answers
\* (low, 0.0) for n = 0, (medium, 0.5) for n in 1..2, (high, 0.7) for n in
\* 3..4 and (critical, 0.9) for n >= 5; a text with more matches never gets
\* a lower level or confidence; and with n = 0 the indicators, the risk
\* factors and the recommendations are all empty.
C11_LevelByMatchCount ==
    sc_pc = "scored" =>
        LET n == Len(sc_analysis.indicators)
            level == sc_analysis.threat_level
            confidence == sc_analysis.confidence_score
        IN  /\ (n = 0) => (level = "low" /\ confidence = 0)
            /\ (n \in 1..2) => (level = "medium" /\ confidence = 5)
            /\ (n \in 3..4) => (level = "high" /\ confidence = 7)
            /\ (n >= 5) => (level = "critical" /\ confidence = 9)
            /\ \A w \in Words :
                  LET more == detect_threat_patterns(RowText(sc_row) \o <<w>>)
                  IN  /\ Len(more.indicators) >= n
                      /\ Rank(more.threat_level) >= Rank(level)
                      /\ more.confidence_score >= confidence
            /\ (n = 0) =>
                  /\ sc_analysis.indicators = <<>>
                  /\ sc_analysis.risk_factors = <<>>
                  /\ sc_recommendations = <<>>
                  /\ sc_incident.threat_analysis.recommendations = <<>>

\* Rows of every band have been scored; this one sits on the upper edge of
\* "high".
C11_Witness ==
    /\ sc_pc = "scored"
    /\ Len(sc_analysis.indicators) = 4
    /\ sc_analysis.threat_level = "high"
    /\ sc_analysis.confidence_score = 7

Min(a, b) == IF a < b THEN a ELSE b

\* C12: in a result entry, threat_analysis.indicators holds the first 10
\* collected matches, in collection order with duplicates kept, and no
\* more; recommendations holds at most 5 strings; the level and the
\* confidence are those of the untruncated number of matches.
C12_ListsTruncated ==
    sc_pc = "scored" =>
        LET collected == sc_analysis.indicators
            n == Len(collected)
            shown == sc_incident.threat_analysis
        IN  /\ Len(shown.indicators) = Min(n, 10)
            /\ \A i \in 1..Len(shown.indicators) : shown.indicators[i] = collected[i]
            /\ Len(shown.recommendations) <= 5
            /\ shown.recommendations = sc_recommendations
            /\ shown.threat_level = sc_analysis.threat_level
            /\ shown.confidence_score = sc_analysis.confidence_score
            /\ (n >= 5) => (shown.threat_level = "critical" /\ shown.confidence_score = 9)
            /\ (n \in 3..4) => (shown.threat_level = "high" /\ shown.confidence_score = 7)

\* A row with eleven matches: ten are shown, the same word several times,
\* and five recommendations of the ten that apply.
C12_Witness ==
    /\ sc_pc = "scored"
    /\ Len(sc_analysis.indicators) = 11
    /\ Len(sc_incident.threat_analysis.indicators) = 10
    /\ sc_incident.threat_analysis.indicators[2] = sc_incident.threat_analysis.indicators[3]
    /\ Len(sc_incident.threat_analysis.recommendations) = 5
    /\ Member(sc_analysis.risk_factors, "Malware detected")

\* ------------------------------------------------ the body of a 200 answer
\* The count a request asks for: its matchCount, 10 when absent.
RequestedCount(ev) ==
    IF "matchCount" \in DOMAIN ev.map
    THEN (IF ev.map["matchCount"].t = "num" THEN ev.map["matchCount"].n
          ELSE StrToNum(ev.map["matchCount"].s))
    ELSE 10
AnalysisFields ==
    {"threat_level", "confidence_score", "indicators", "risk_factors",
     "recommendations"}

\* C13: the body of every 200 response has matchCount equal to the number of
\* records it carries, whatever count was requested, query and
\* matchThreshold equal to the values read from the request, and in every
\* record a threat_analysis with threat_level, confidence_score, indicators,
\* risk_factors and recommendations.
C13_ResponseShape ==
    \A r \in Reqs :
        (pc[r] = "done" /\ result[r].kind = "return" /\ result[r].statusCode = 200)
        => LET doc == json_loads(result[r].body)
           IN  /\ doc.matchCount = Len(doc.results)
               /\ doc.query = event[r].map["query"]
               /\ doc.matchThreshold = RequestedThreshold(event[r])
               /\ \A i \in 1..Len(doc.results) :
                    /\ "threat_analysis" \in DOMAIN doc.results[i]
                    /\ AnalysisFields \subseteq DOMAIN doc.results[i].threat_analysis

\* A 200 response that carries two records where ten were asked for.
C13_Witness ==
    \E r \in Reqs :
        /\ pc[r] = "done"
        /\ result[r].kind = "return"
        /\ result[r].statusCode = 200
        /\ RequestedCount(event[r]) = 10
        /\ Len(json_loads(result[r].body).results) = 2
        /\ json_loads(result[r].body).matchCount = 2

\* ------------------------------------------------------- recommendations
GeneralResponse ==
    <<"Immediate incident response required", "Isolate affected systems",
      "Notify security team and management",
      "Preserve evidence for forensic analysis">>
ForMalware ==
    <<"Run full antivirus scan on all systems",
      "Check for persistence mechanisms",
      "Review system logs for additional indicators">>
ForLateral ==
    <<"Review network segmentation", "Check for unauthorized access attempts",
      "Monitor for additional lateral movement">>
ForExfiltration ==
    <<"Review data access logs", "Check for unusual data transfers",
      "Implement data loss prevention measures">>
AllRiskFactors ==
    <<"Malware detected", "Lateral movement detected", "Data exfiltration risk">>
When(cond, seq) == IF cond THEN seq ELSE <<>>

\* The recommendations are the first five of: the general strings for a high
\* or critical level, then the strings of each risk factor present.
FirstFiveInOrder ==
    LET all == When(sc_analysis.threat_level \in {"high", "critical"}, GeneralResponse)
               \o When(Member(sc_analysis.risk_factors, AllRiskFactors[1]), ForMalware)
               \o When(Member(sc_analysis.risk_factors, AllRiskFactors[2]), ForLateral)
               \o When(Member(sc_analysis.risk_factors, AllRiskFactors[3]), ForExfiltration)
    IN  sc_recommendations = SubSeq(all, 1, Min(Len(all), 5))

\* The text holds "malware", "lateral movement" and an exfiltration word.
HasWord(text, S) == \E i \in 1..Len(text) : Lower(text[i]) \in S
ThreeFactorText(text) ==
    /\ HasWord(text, {"malware"})
    /\ HasWord(text, {"lateral movement"})
    /\ HasWord(text, {"exfiltration", "exfil"})

\* C14 as stated: the recommendations are the first five of the ordered
\* concatenation, and every text containing "malware", a lateral-movement
\* phrase and an exfiltration phrase is scored high with confidence 0.7,
\* has all three risk factors and gets the four general strings followed by
\* the first malware string.
C14_AsStated ==
    sc_pc = "scored" =>
        /\ FirstFiveInOrder
        /\ ThreeFactorText(RowText(sc_row)) =>
              /\ sc_analysis.threat_level = "high"
              /\ sc_analysis.confidence_score = 7
              /\ sc_analysis.risk_factors = AllRiskFactors
              /\ sc_recommendations = GeneralResponse \o <<ForMalware[1]>>

\* C14, amended: the recommendations are the first five of the ordered
\* concatenation, and every text containing "malware", a lateral-movement
\* phrase and an exfiltration phrase has all three risk factors and gets
\* the four general strings followed by the first malware string; it is
\* scored high with confidence 0.7 when it has at most four matches in all,
\* and critical with confidence 0.9 when it has five or more.
C14_Recommendations ==
    sc_pc = "scored" =>
        /\ FirstFiveInOrder
        /\ ThreeFactorText(RowText(sc_row)) =>
              /\ Len(sc_analysis.indicators) >= 3
              /\ (Len(sc_analysis.indicators) <= 4) =>
                    (sc_analysis.threat_level = "high" /\ sc_analysis.confidence_score = 7)
              /\ (Len(sc_analysis.indicators) >= 5) =>
                    (sc_analysis.threat_level = "critical" /\ sc_analysis.confidence_score = 9)
              /\ sc_analysis.risk_factors = AllRiskFactors
              /\ sc_recommendations = GeneralResponse \o <<ForMalware[1]>>

\* The three phrases and nothing else that matches: four matches, high.
C14_Witness ==
    /\ sc_pc = "scored"
    /\ ThreeFactorText(RowText(sc_row))
    /\ Len(sc_analysis.indicators) = 4
    /\ sc_analysis.threat_level = "high"
    /\ sc_recommendations = GeneralResponse \o <<ForMalware[1]>>

\* ----------------------------------------------------------- risk factors
\* Some collected indicator, lower-cased, contains the fragment.
IndicatorHas(frag) ==
    \E i \in 1..Len(sc_analysis.indicators) :
        Contains(Lower(sc_analysis.indicators[i]), frag)

\* C15: the risk factors come from the collected indicators alone:
\* 'Malware detected' is there exactly when an indicator contains "malware",
\* 'Lateral movement detected' exactly when one contains "lateral", 'Data
\* exfiltration risk' exactly when one contains "exfil", letter case
\* ignored; each at most once, in that order; none without indicators.
C15_RiskFactorsFromIndicators ==
    sc_pc = "scored" =>
        /\ sc_analysis.risk_factors =
              When(IndicatorHas("malware"), <<AllRiskFactors[1]>>)
              \o When(IndicatorHas("lateral"), <<AllRiskFactors[2]>>)
              \o When(IndicatorHas("exfil"), <<AllRiskFactors[3]>>)
        /\ (sc_analysis.indicators = <<>>) => (sc_analysis.risk_factors = <<>>)
        /\ sc_incident.threat_analysis.risk_factors = sc_analysis.risk_factors

\* A row with "virus" and "Exfil" among its indicators and the bare word
\* "lateral" in its text: neither the malware nor the lateral factor.
C15_Witness ==
    /\ sc_pc = "scored"
    /\ Member(sc_analysis.indicators, "virus")
    /\ Member(sc_analysis.indicators, "Exfil")
    /\ Member(sc_row.title, "lateral")
    /\ sc_analysis.risk_factors = <<"Data exfiltration risk">>

\* ---------------------------------------------------- concurrent requests
\* Invocations that overlap: each runs in an instance of its own, with its
\* own locals, and all of them use the one cache. Every instance serves one
\* request; no entry lives long enough to expire meanwhile.
ConcurrentEvents ==
    {[kind |-> "json",
      map |-> ("query" :> JStr(q)) @@ ("matchCount" :> JStr("1"))] :
        q \in QueryTexts}

\* An invocation starts while others are under way.
InvokeConcurrent(r) ==
    /\ UNCHANGED outside
    /\ pc[r] = "idle"
    /\ r = invocations + 1
    /\ invocations < MaxInvocations
    /\ \E ev \in ConcurrentEvents : event' = [event EXCEPT ![r] = ev]
    /\ pc' = [pc EXCEPT ![r] = "parse"]
    /\ invocations' = invocations + 1
    /\ UNCHANGED <<query, match_threshold, match_count, embedding,
                   pinecone_results, ids, incidents, result, calls, redis,
                   now, ticks>>

ConcurrentNext ==
    \/ \E r \in Reqs : InvokeConcurrent(r)
    \/ \E r \in Reqs : Parse(r)
    \/ \E r \in Reqs : CacheGet(r)
    \/ \E r \in Reqs : Embed(r)
    \/ \E r \in Reqs : CachePut(r)
    \/ \E r \in Reqs : Pinecone(r)
    \/ \E r \in Reqs : Metadata(r)
    \/ \E r \in Reqs : ResultCache(r)
SpecConcurrent == Init /\ [][ConcurrentNext]_vars

\* The text a request asks about, read off its event.
TextOf(r) == event[r].map["query"].s
Started(r) == pc[r] /= "idle"
WroteEmbedding(r) ==
    \E i \in 1..Len(calls[r]) : IsEmbeddingWrite(calls[r][i]) /\ calls[r][i].ok

\* C16: however concurrent requests on the one cache interleave, the entry
\* under the embedding key of a text is the embedding of that text; every
\* request queries the vector index with the embedding of its own text;
\* a request calls the provider at most once, and only after its own read
\* missed (so two requests for one text may each call it); and once a
\* request has written its embedding the cache holds the entry of its text.
C16_CacheKeyedByText ==
    /\ \A k \in DOMAIN redis :
          k[1] = "embedding" =>
            /\ k[2] \in QueryTexts
            /\ redis[k].val = json_dumps(VectorOfText(k[2]))
    /\ \A r \in Reqs :
          Started(r) =>
            /\ \A i \in CallsTo(r, "pinecone") :
                  calls[r][i].arg = VectorOfText(TextOf(r))
            /\ \A i \in CallsTo(r, "openai") :
                  /\ calls[r][i].arg = <<TextOf(r)>>
                  /\ i = 2
                  /\ calls[r][1].op = "get" /\ ~calls[r][1].ret.present
            /\ ProviderCalls(calls[r]) <= 1
            /\ WroteEmbedding(r) =>
                  /\ KeyOfText(TextOf(r)) \in DOMAIN redis
                  /\ redis[KeyOfText(TextOf(r))].val = json_dumps(VectorOfText(TextOf(r)))

\* Two requests for one text both missed the empty cache, both called the
\* provider and both wrote; the cache holds the entry of the text.
C16_Witness ==
    \E r1, r2 \in Reqs :
        /\ r1 /= r2
        /\ Started(r1) /\ Started(r2)
        /\ TextOf(r1) = TextOf(r2)
        /\ ProviderCalls(calls[r1]) = 1 /\ ProviderCalls(calls[r2]) = 1
        /\ WroteEmbedding(r1) /\ WroteEmbedding(r2)
        /\ KeyOfText(TextOf(r1)) \in DOMAIN redis

\* ------------------------------------------------- detailed health check
\* What a probed service may do: answer with an HTTP status, or fail
\* (timeout, connection error).
StatusCodes == {200, 401, 503}
Replies ==
    {[kind |-> "status", code |-> c] : c \in StatusCodes}
    \cup {[kind |-> "raise", code |-> 0]}
ResponseTimes == {12}
ServiceKeys == <<"database", "auth", "ai">>

Unconfigured(what) ==
    [status |-> "degraded", error |-> <<what, " not configured">>, response_time |-> 0]
ServiceDown(e) == [status |-> "down", error |-> e, response_time |-> 0]
ServiceDegraded(ms, what, code) ==
    [status |-> "degraded", response_time |-> ms,
     error |-> <<what, " returned status ", code>>]

\* lines 182-227
check_database_health_internal(env, reply, ms) ==
    IF ~env.supabase THEN Unconfigured("Supabase credentials")
    ELSE IF reply.kind = "raise" THEN ServiceDown("requests.ConnectionError")
    ELSE IF reply.code = 200
         THEN [status |-> "healthy", response_time |-> ms, connection |-> "active"]
    ELSE ServiceDegraded(ms, "Database", reply.code)

\* lines 229-274
check_auth_health_internal(env, reply, ms) ==
    IF ~env.supabase THEN Unconfigured("Supabase credentials")
    ELSE IF reply.kind = "raise" THEN ServiceDown("requests.ConnectionError")
    ELSE IF reply.code \in {200, 401}
         THEN [status |-> "healthy", response_time |-> ms, service |-> "supabase_auth"]
    ELSE ServiceDegraded(ms, "Auth service", reply.code)

\* lines 276-322
check_ai_health_internal(env, reply, ms) ==
    IF ~env.openai THEN Unconfigured("OpenAI API key")
    ELSE IF reply.kind = "raise" THEN ServiceDown("requests.ConnectionError")
    ELSE IF reply.code = 200
         THEN [status |-> "healthy", response_time |-> ms, service |-> "openai"]
    ELSE ServiceDegraded(ms, "OpenAI API", reply.code)

AnyStatus(results, status) ==
    \E i \in 1..Len(ServiceKeys) : results[ServiceKeys[i]].status = status

\* An overall status that lets "degraded" win over "down".
OverallStatusDegradedFirst(results) ==
    IF AnyStatus(results, "degraded") THEN "degraded"
    ELSE IF AnyStatus(results, "down") THEN "down"
    ELSE "healthy"
\* lines 124, 128-132: the values that are dicts are the three services'.
OverallStatus(results) ==
    IF AnyStatus(results, "down") THEN "down"
    ELSE IF AnyStatus(results, "degraded") THEN "degraded"
    ELSE "healthy"

\* str.capitalize()
Capitalize(name) ==
    CASE name = "database" -> "Database" [] name = "auth" -> "Auth"
      [] name = "ai" -> "Ai"
HealthValue(status) == IF status = "healthy" THEN 1 ELSE 0
ServiceMetrics(name, res) ==
    << [MetricName |-> <<Capitalize(name), "Health">>,
        Value |-> HealthValue(res.status), Unit |-> "None"],
       [MetricName |-> <<Capitalize(name), "ResponseTime">>,
        Value |-> res.response_time, Unit |-> "Milliseconds"] >>
\* lines 327-360
MetricData(results) ==
    << [MetricName |-> <<"OverallHealth">>,
        Value |-> HealthValue(results.overall), Unit |-> "None"] >>
    \o ServiceMetrics("database", results.database)
    \o ServiceMetrics("auth", results.auth)
    \o ServiceMetrics("ai", results.ai)

\* lines 370-381
create_response(status_code, doc) ==
    [statusCode |-> status_code,
     headers |-> [ContentType |-> "application/json", AllowOrigin |-> "*"],
     body |-> json_dumps(doc)]

HealthInit ==
    /\ SearchInit /\ ScorerOff /\ TeamsOff
    /\ h_pc = "database"
    /\ h_env \in [supabase : BOOLEAN, openai : BOOLEAN]
    /\ h_services = <<>>
    /\ health_results = <<>>
    /\ h_cloudwatch = <<>>
    /\ h_response = NoResponse

HealthRest == <<searchVars, scorerVars, teamsVars>>

\* line 121
CheckDatabase ==
    /\ h_pc = "database"
    /\ \E reply \in Replies, ms \in ResponseTimes :
         h_services' = ("database" :> check_database_health_internal(h_env, reply, ms))
    /\ h_pc' = "auth"
    /\ UNCHANGED <<h_env, health_results, h_cloudwatch, h_response, HealthRest>>

\* line 122
CheckAuth ==
    /\ h_pc = "auth"
    /\ \E reply \in Replies, ms \in ResponseTimes :
         h_services' = h_services @@ ("auth" :> check_auth_health_internal(h_env, reply, ms))
    /\ h_pc' = "ai"
    /\ UNCHANGED <<h_env, health_results, h_cloudwatch, h_response, HealthRest>>

\* line 123
CheckAI ==
    /\ h_pc = "ai"
    /\ \E reply \in Replies, ms \in ResponseTimes :
         h_services' = h_services @@ ("ai" :> check_ai_health_internal(h_env, reply, ms))
    /\ h_pc' = "overall"
    /\ UNCHANGED <<h_env, health_results, h_cloudwatch, h_response, HealthRest>>

\* lines 120-132
DetermineOverall ==
    /\ h_pc = "overall"
    /\ health_results' =
          [database |-> h_services["database"],
           auth |-> h_services["auth"],
           ai |-> h_services["ai"],
           overall |-> OverallStatus(h_services),
           timestamp |-> "utcnow"]
    /\ h_pc' = "metrics"
    /\ UNCHANGED <<h_env, h_services, h_cloudwatch, h_response, HealthRest>>

\* lines 135, 324-368: publish the metrics; a failure is printed and
\* swallowed.
SendHealthMetrics ==
    /\ h_pc = "metrics"
    /\ \E ok \in BOOLEAN :
         h_cloudwatch' = IF ok THEN MetricData(health_results) ELSE <<>>
    /\ h_pc' = "respond"
    /\ UNCHANGED <<h_env, h_services, health_results, h_response, HealthRest>>

\* line 137
RespondHealth ==
    /\ h_pc = "respond"
    /\ h_response' = create_response(200, health_results)
    /\ h_pc' = "done"
    /\ UNCHANGED <<h_env, h_services, health_results, h_cloudwatch, HealthRest>>

HealthNext ==
    \/ CheckDatabase
    \/ CheckAuth
    \/ CheckAI
    \/ DetermineOverall
    \/ SendHealthMetrics
    \/ RespondHealth
SpecHealth == HealthInit /\ [][HealthNext]_vars

\* The statuses the three checks reported.
Reported == {h_services[k].status : k \in DOMAIN h_services}
ExpectedOverall ==
    IF "down" \in Reported THEN "down"
    ELSE IF "degraded" \in Reported THEN "degraded"
    ELSE "healthy"

\* C17: the detailed health check answers with overall "down" when any
\* service is down, else "degraded" when any is degraded, else "healthy",
\* always with HTTP status 200, and the answer is the same whether or not
\* the metrics could be published.
C17_OverallStatus ==
    h_pc = "done" =>
        /\ h_response.statusCode = 200
        /\ json_loads_ok(h_response.body)
        /\ json_loads(h_response.body) =
              [database |-> h_services["database"],
               auth |-> h_services["auth"],
               ai |-> h_services["ai"],
               overall |-> ExpectedOverall,
               timestamp |-> "utcnow"]

\* One service down and another degraded, the metrics not published: the
\* answer is 200 with overall "down".
C17_Witness ==
    /\ h_pc = "done"
    /\ h_cloudwatch = <<>>
    /\ "down" \in Reported /\ "degraded" \in Reported
    /\ h_response.statusCode = 200
    /\ json_loads(h_response.body).overall = "down"

\* ------------------------------------------------------ Teams alert handler
WebhookUrl == "https://teams.example/webhook"
AlarmNames == {"soc-database-down", "web-frontend-5xx"}
AlarmStates == {"ALARM", "OK", "INSUFFICIENT_DATA"}
\* The state of an alarm event: value and reasonData, either may be absent.
StateMaps ==
    {v @@ why : v \in OptField("value", AlarmStates),
                why \in OptField("reasonData", {"Threshold Crossed"})}
\* The event: without detail, or with a detail that may lack the alarm name
\* or the state.
AlarmEvents ==
    {<<>>}
    \cup {("detail" :> (n @@ st)) : n \in OptField("alarmName", AlarmNames),
                                   st \in OptField("state", StateMaps)}
\* What the webhook does with a post: answers with a status, or the call
\* fails (timeout, connection error).
PostReplies ==
    {[kind |-> "status", code |-> c] : c \in {200, 202, 500}}
    \cup {[kind |-> "raise", code |-> 0]}

\* lines 71-92: the first service, in table order, one of whose patterns
\* occurs in the lower-cased name.
extract_service_from_alarm(alarm_name) ==
    CASE alarm_name = "web-frontend-5xx" -> "frontend"
      [] alarm_name = "soc-database-down" -> "database"
      [] OTHER -> "unknown"

\* str.capitalize() of a service name
CapitalizeService(service) ==
    CASE service = "frontend" -> "Frontend"
      [] service = "database" -> "Database"
      [] OTHER -> "Unknown"

\* lines 94-132
create_downtime_message(service, reason, alarm_name) ==
    [themeColor |-> "FF0000",
     summary |-> <<CapitalizeService(service), " Service Down">>,
     facts |-> [Service |-> CapitalizeService(service), Status |-> "DOWN",
                Alarm |-> alarm_name, Reason |-> reason]]

\* lines 134-165
create_recovery_message(service, reason, alarm_name) ==
    [themeColor |-> "00FF00",
     summary |-> <<CapitalizeService(service), " Service Recovered">>,
     facts |-> [Service |-> CapitalizeService(service), Status |-> "HEALTHY",
                Alarm |-> alarm_name]]

\* A handler content with any answer of the webhook.
NotificationSentAnyStatus(reply) == reply.kind = "status"
\* line 51
NotificationSent(reply) == reply.kind = "status" /\ reply.code = 200

TeamsInit ==
    /\ SearchInit /\ ScorerOff /\ HealthOff
    /\ t_pc = "env"
    /\ t_env \in {"", WebhookUrl}
    /\ t_event \in AlarmEvents
    /\ t_message = <<>>
    /\ t_posts = <<>>
    /\ t_response = NoResponse

TeamsRest == <<searchVars, scorerVars, healthVars>>
TeamsReturn(code, text) ==
    /\ t_response' = [statusCode |-> code, body |-> text]
    /\ t_pc' = "done"

\* lines 13-20
ReadWebhookUrl ==
    /\ t_pc = "env"
    /\ IF t_env = ""
       THEN TeamsReturn(200, <<"Teams webhook not configured">>)
       ELSE t_pc' = "alarm" /\ UNCHANGED t_response
    /\ UNCHANGED <<t_env, t_event, t_message, t_posts, TeamsRest>>

\* lines 23-41
BuildMessage ==
    /\ t_pc = "alarm"
    /\ LET detail == DictGet(t_event, "detail", <<>>)
           state == DictGet(detail, "state", <<>>)
           alarm_name == DictGet(detail, "alarmName", "Unknown Alarm")
           alarm_state == DictGet(state, "value", "UNKNOWN")
           alarm_reason == DictGet(state, "reasonData", "No reason provided")
           service == extract_service_from_alarm(alarm_name)
       IN  IF alarm_state = "ALARM"
           THEN /\ t_message' = create_downtime_message(service, alarm_reason, alarm_name)
                /\ t_pc' = "post"
                /\ UNCHANGED t_response
           ELSE IF alarm_state = "OK"
           THEN /\ t_message' = create_recovery_message(service, alarm_reason, alarm_name)
                /\ t_pc' = "post"
                /\ UNCHANGED t_response
           ELSE /\ TeamsReturn(200, <<"Unknown alarm state">>)
                /\ UNCHANGED t_message
    /\ UNCHANGED <<t_env, t_event, t_posts, TeamsRest>>

\* lines 44-69
PostToTeams ==
    /\ t_pc = "post"
    /\ \E reply \in PostReplies :
         /\ t_posts' = Append(t_posts, [url |-> t_env, json |-> t_message, reply |-> reply])
         /\ IF reply.kind = "raise"
            THEN TeamsReturn(500, <<"Error processing alarm: ", "requests.Timeout">>)
            ELSE IF NotificationSent(reply)
            THEN TeamsReturn(200, <<"Teams notification sent">>)
            ELSE TeamsReturn(500, <<"Failed to send Teams notification: ", reply.code>>)
    /\ UNCHANGED <<t_env, t_event, t_message, TeamsRest>>

TeamsNext ==
    \/ ReadWebhookUrl
    \/ BuildMessage
    \/ PostToTeams
SpecTeams == TeamsInit /\ [][TeamsNext]_vars

\* The alarm state an event carries, "" when it carries none.
AlarmStateOf(ev) ==
    IF "detail" \in DOMAIN ev /\ "state" \in DOMAIN ev["detail"]
       /\ "value" \in DOMAIN ev["detail"]["state"]
    THEN ev["detail"]["state"]["value"]
    ELSE ""
Configured == t_env /= ""

\* C18: the handler posts at most once per event, and only with a webhook
\* URL configured and an alarm state of ALARM or OK, the downtime message
\* for ALARM and the recovery message for OK; without a URL or with any
\* other state it answers 200 and posts nothing; it answers 500 exactly
\* when the post was answered with a status other than 200 or raised.
C18_PostOncePerAlarm ==
    /\ Len(t_posts) <= 1
    /\ t_posts /= <<>> =>
          /\ Configured
          /\ AlarmStateOf(t_event) \in {"ALARM", "OK"}
          /\ t_posts[1].url = t_env
          /\ AlarmStateOf(t_event) = "ALARM" =>
                (t_posts[1].json.themeColor = "FF0000"
                 /\ t_posts[1].json.facts.Status = "DOWN")
          /\ AlarmStateOf(t_event) = "OK" =>
                (t_posts[1].json.themeColor = "00FF00"
                 /\ t_posts[1].json.facts.Status = "HEALTHY")
    /\ t_pc = "done" =>
          /\ (Configured /\ AlarmStateOf(t_event) \in {"ALARM", "OK"}) => Len(t_posts) = 1
          /\ (~Configured \/ AlarmStateOf(t_event) \notin {"ALARM", "OK"}) =>
                (t_response.statusCode = 200 /\ t_posts = <<>>)
          /\ t_response.statusCode \in {200, 500}
          /\ (t_response.statusCode = 500) <=>
                (/\ t_posts /= <<>>
                 /\ \/ t_posts[1].reply.kind = "raise"
                    \/ t_posts[1].reply.code /= 200)

\* An OK alarm whose recovery message the webhook answered with 202: one
\* post, and a 500 response.
C18_Witness ==
    /\ t_pc = "done"
    /\ AlarmStateOf(t_event) = "OK"
    /\ Len(t_posts) = 1
    /\ t_posts[1].json.facts.Status = "HEALTHY"
    /\ t_posts[1].reply = [kind |-> "status", code |-> 202]
    /\ t_response.statusCode = 500
====
